---- MODULE Spec2Model ----
(***************************************************************************)
(* Karaoke lyric display: the playback clock of KaraokeApp, the render /   *)
(* poll loop of main that mutates it, and the time-to-lyric mapping.       *)
(*                                                                         *)
(* Time is counted in tenths of a second (the step of line_delay), so the  *)
(* f64 seconds of the source become integers: 21.0 s is 210, 0.1 s is 1.   *)
(* Option<usize> is an integer, None being -1; lyric indices are 0-based   *)
(* as in the source.                                                       *)
(***************************************************************************)
EXTENDS Integers, Sequences, FiniteSets, TLC

VARIABLES
    config,            \* the SongConfig that SongConfig::load returns
    lyrics,            \* KaraokeApp.lyrics
    song_duration,     \* KaraokeApp.song_duration
    start_time,        \* KaraokeApp.start_time: the Instant of the last resume/restart
    paused,            \* KaraokeApp.paused
    current_position,  \* KaraokeApp.current_position
    line_delay,        \* KaraokeApp.line_delay
    now,               \* the wall clock, what Instant::now() returns
    pc,                \* main's position: "new", "draw", "clamp", "poll", and
                       \* once main is left "done" (Ok), "failed" (Err), "panicked"
    raw_mode,          \* the terminal is in raw mode
    alternate_screen,  \* the terminal shows the alternate screen
    key,               \* the key the latest step handled, "none" if it handled none
    before,            \* the clock fields and wall clock as that handler found them
    frame_time,        \* ui: current_time of the frame on screen
    current_idx,       \* ui: current_idx of the frame on screen
    lines,             \* ui: the five rows of the lyric window of that frame
    progress_ratio,    \* ui: progress_ratio of that frame
    progress_bar       \* ui: the progress bar of that frame

\* the song as loaded, the clock, the terminal, the frame on screen
song == <<config, lyrics, song_duration>>

clock == <<start_time, paused, current_position, line_delay>>

term == <<raw_mode, alternate_screen>>

frame == <<frame_time, current_idx, lines, progress_ratio, progress_bar>>

vars == <<song, clock, now, pc, term, key, before, frame>>

(***************************************************************************)
(* Bounds of the model.                                                    *)
(***************************************************************************)
\* the wall clock stops advancing once it has reached MaxNow
MaxNow == 240
\* one wall-clock advance lasts 1..MaxWait units of WaitUnit tenths of a second
MaxWait == 3
WaitUnit == 10
\* Up is not pressed beyond this sync offset
MaxDelay == 2
\* lyric sequences drawn for the lyric index: lengths, times and sync offsets
MaxLines == 3
MaxTime == 4
MaxLyricDelay == 1

(***************************************************************************)
(* SongConfig::load                                                        *)
(***************************************************************************)
duration == 210

start_position == 0

LyricLine(text, s, e) == [text |-> text, start_time |-> s, end_time |-> e]

ConfigLyrics ==
    << LyricLine("Example line 1", 0, 30),
       LyricLine("Example line 2", 30, 60),
       LyricLine("Example line 3", 60, 90),
       LyricLine("Example line 4", 90, 120),
       LyricLine("Example line 5", 120, 150),
       LyricLine("Example line 6", 150, 180),
       LyricLine("Example line 7", 180, 210) >>

load ==
    [title |-> "Title here", duration |-> duration,
     start_position |-> start_position, lyrics |-> ConfigLyrics]

(***************************************************************************)
(* KaraokeApp: the clock.  An app value is the record of the clock fields; *)
(* t is the wall clock at the call.                                        *)
(***************************************************************************)
Min(a, b) == IF a <= b THEN a ELSE b

Max(a, b) == IF a >= b THEN a ELSE b

App ==
    [paused |-> paused, current_position |-> current_position,
     start_time |-> start_time, line_delay |-> line_delay]

\* get_current_time without the clamp to the song's duration
get_current_time_unclamped(app, t) ==
    IF app.paused
    THEN app.current_position
    ELSE app.current_position + (t - app.start_time)

get_current_time(app, t) ==
    IF app.paused
    THEN app.current_position
    ELSE Min(app.current_position + (t - app.start_time), song_duration)

is_song_ended(app, t) == get_current_time(app, t) >= song_duration

\* toggle_pause without the early return on an ended song
toggle_pause_unguarded(app, t) ==
    LET flipped == [app EXCEPT !.paused = ~app.paused]
    IN  IF flipped.paused
        THEN [flipped EXCEPT !.current_position = get_current_time(flipped, t)]
        ELSE [flipped EXCEPT !.start_time = t]

toggle_pause(app, t) ==
    IF is_song_ended(app, t)
    THEN app
    ELSE LET flipped == [app EXCEPT !.paused = ~app.paused]
         IN  IF flipped.paused
             THEN [flipped EXCEPT !.current_position = get_current_time(flipped, t)]
             ELSE [flipped EXCEPT !.start_time = t]

\* restart that forgets to reset the anchor
restart_keeps_anchor(app, t) ==
    [app EXCEPT !.current_position = 0, !.paused = FALSE]

\* main, KeyCode::Char('r')
restart(app, t) ==
    [app EXCEPT !.current_position = 0, !.start_time = t, !.paused = FALSE]

\* Up that moves the playback position along with the offset
offset_up_seeks(app) ==
    [app EXCEPT !.line_delay = app.line_delay + 1,
                !.current_position = app.current_position + 1]

\* main, KeyCode::Up
offset_up(app) == [app EXCEPT !.line_delay = app.line_delay + 1]

\* Down without the floor at 0
offset_down_unclamped(app) == [app EXCEPT !.line_delay = app.line_delay - 1]

\* main, KeyCode::Down
offset_down(app) == [app EXCEPT !.line_delay = Max(app.line_delay - 1, 0)]

\* the clamp that pauses but leaves the position where it was
end_of_song_clamp_flag_only(app, t) ==
    IF is_song_ended(app, t) /\ ~app.paused
    THEN [app EXCEPT !.paused = TRUE]
    ELSE app

\* main, the end-of-song clamp at the top of each loop iteration
end_of_song_clamp(app, t) ==
    IF is_song_ended(app, t) /\ ~app.paused
    THEN [app EXCEPT !.paused = TRUE, !.current_position = song_duration]
    ELSE app

(***************************************************************************)
(* KaraokeApp: the lyric index.  ls is the lyric sequence, d the sync      *)
(* offset, t the playback time.                                            *)
(***************************************************************************)
None == -1

\* the line with 0-based index i
LineAt(ls, i) == ls[i + 1]

InLine(ls, d, t, i) ==
    /\ t >= LineAt(ls, i).start_time + d
    /\ t < LineAt(ls, i).end_time + d

\* the gap scan run forward: the first completed line, not the most recent
get_current_line_index_first_ended(ls, d, t) ==
    LET n == Len(ls)
        hits == {i \in 0..(n - 1) : InLine(ls, d, t, i)}
        ended == {i \in 0..(n - 1) : t >= LineAt(ls, i).end_time + d}
    IN  IF hits # {}
        THEN CHOOSE i \in hits : \A j \in hits : i <= j
        ELSE IF t >= LineAt(ls, n - 1).end_time + d
        THEN n - 1
        ELSE IF ended # {}
        THEN CHOOSE i \in ended : \A j \in ended : i <= j
        ELSE None

\* the interval test with the adjusted end included
get_current_line_index_closed_end(ls, d, t) ==
    LET n == Len(ls)
        hits == {i \in 0..(n - 1) : /\ t >= LineAt(ls, i).start_time + d
                                     /\ t <= LineAt(ls, i).end_time + d}
        ended == {i \in 0..(n - 1) : t >= LineAt(ls, i).end_time + d}
    IN  IF hits # {}
        THEN CHOOSE i \in hits : \A j \in hits : i <= j
        ELSE IF t >= LineAt(ls, n - 1).end_time + d
        THEN n - 1
        ELSE IF ended # {}
        THEN CHOOSE i \in ended : \A j \in ended : i >= j
        ELSE None

\* without the backward scan: a gap shows no active line
get_current_line_index_no_gap_scan(ls, d, t) ==
    LET n == Len(ls)
        hits == {i \in 0..(n - 1) : InLine(ls, d, t, i)}
    IN  IF hits # {}
        THEN CHOOSE i \in hits : \A j \in hits : i <= j
        ELSE IF t >= LineAt(ls, n - 1).end_time + d
        THEN n - 1
        ELSE None

\* for i in lyrics.iter().enumerate() / last().unwrap() / for i in (0..len).rev()
get_current_line_index(ls, d, t) ==
    LET n == Len(ls)
        hits == {i \in 0..(n - 1) : InLine(ls, d, t, i)}
        ended == {i \in 0..(n - 1) : t >= LineAt(ls, i).end_time + d}
    IN  IF hits # {}
        THEN CHOOSE i \in hits : \A j \in hits : i <= j
        ELSE IF t >= LineAt(ls, n - 1).end_time + d
        THEN n - 1
        ELSE IF ended # {}
        THEN CHOOSE i \in ended : \A j \in ended : i >= j
        ELSE None

(***************************************************************************)
(* KaraokeApp: progress and completion of a line.  An f64 in [0, 1] is the *)
(* exact fraction <<numerator, denominator>>, denominator > 0.             *)
(***************************************************************************)
Zero == <<0, 1>>

One == <<1, 1>>

RatLe(p, q) == p[1] * q[2] <= q[1] * p[2]

RatEq(p, q) == p[1] * q[2] = q[1] * p[2]

RatMin(p, q) == IF RatLe(p, q) THEN p ELSE q

\* the interpolation measured from the unadjusted start
get_line_progress_unadjusted(ls, d, t, line_idx) ==
    IF line_idx >= Len(ls)
    THEN Zero
    ELSE LET adjusted_start == LineAt(ls, line_idx).start_time + d
             adjusted_end == LineAt(ls, line_idx).end_time + d
         IN  IF t < adjusted_start
             THEN Zero
             ELSE IF t >= adjusted_end
             THEN One
             ELSE <<t - LineAt(ls, line_idx).start_time, adjusted_end - adjusted_start>>

get_line_progress(ls, d, t, line_idx) ==
    IF line_idx >= Len(ls)
    THEN Zero
    ELSE LET adjusted_start == LineAt(ls, line_idx).start_time + d
             adjusted_end == LineAt(ls, line_idx).end_time + d
         IN  IF t < adjusted_start
             THEN Zero
             ELSE IF t >= adjusted_end
             THEN One
             ELSE <<t - adjusted_start, adjusted_end - adjusted_start>>

\* a line counted as completed from its adjusted start on
is_line_completed_from_start(ls, d, t, line_idx) ==
    IF line_idx >= Len(ls)
    THEN FALSE
    ELSE t >= LineAt(ls, line_idx).start_time + d

is_line_completed(ls, d, t, line_idx) ==
    IF line_idx >= Len(ls)
    THEN FALSE
    ELSE t >= LineAt(ls, line_idx).end_time + d

(***************************************************************************)
(* ui: the lyric window and the progress bar.  A row of the window is the  *)
(* index of the line it shows (None when blank), its style and, for the    *)
(* active row, the progress that splits its text into sung and unsung.     *)
(* The window is the rows top_padding .. top_padding + 4 of the lyric      *)
(* area; the rows around it are always blank.                              *)
(***************************************************************************)
VISIBLE_LINES == 5

CENTER_LINE == 2

BlankRow == [idx |-> None, style |-> "blank", progress |-> Zero]

render_lyric_content(idx, progress, is_active, is_completed) ==
    IF is_active
    THEN [idx |-> idx, style |-> "active", progress |-> progress]
    ELSE IF is_completed
    THEN [idx |-> idx, style |-> "completed", progress |-> Zero]
    ELSE [idx |-> idx, style |-> "upcoming", progress |-> Zero]

\* the window with the signed offset from the centre reversed
window_row_mirrored(ls, d, t, idx, visible_row) ==
    IF visible_row = CENTER_LINE
    THEN IF idx # None
         THEN render_lyric_content(idx, get_line_progress(ls, d, t, idx), TRUE,
                                   is_line_completed(ls, d, t, idx))
         ELSE BlankRow
    ELSE IF idx # None
         THEN LET lyric_idx == idx + (CENTER_LINE - visible_row)
              IN  IF lyric_idx >= 0 /\ lyric_idx < Len(ls)
                  THEN render_lyric_content(lyric_idx, Zero, FALSE,
                                            is_line_completed(ls, d, t, lyric_idx))
                  ELSE BlankRow
         ELSE BlankRow

\* the row of the window with index visible_row, 0..4
window_row(ls, d, t, idx, visible_row) ==
    IF visible_row = CENTER_LINE
    THEN IF idx # None
         THEN render_lyric_content(idx, get_line_progress(ls, d, t, idx), TRUE,
                                   is_line_completed(ls, d, t, idx))
         ELSE BlankRow
    ELSE IF idx # None
         THEN LET lyric_idx == idx + (visible_row - CENTER_LINE)
              IN  IF lyric_idx >= 0 /\ lyric_idx < Len(ls)
                  THEN render_lyric_content(lyric_idx, Zero, FALSE,
                                            is_line_completed(ls, d, t, lyric_idx))
                  ELSE BlankRow
         ELSE BlankRow

window(ls, d, t, idx) ==
    [r \in 1..VISIBLE_LINES |-> window_row(ls, d, t, idx, r - 1)]

\* `as usize` of a non-negative f64: the integer part
Floor(p) == p[1] \div p[2]

\* the marker not held inside the bar
create_progress_bar_unbounded_dot(progress, width) ==
    LET total_sub_blocks == width * 100
        filled_sub_blocks == Floor(<<total_sub_blocks * progress[1], progress[2]>>)
        dot_position == Floor(<<width * progress[1], progress[2]>>)
        blocks_in_this_char(i) == Min(Max(filled_sub_blocks - i * 100, 0), 100)
    IN  [filled_sub_blocks |-> filled_sub_blocks,
         dot_position |-> dot_position,
         spans |-> [c \in 1..width |->
                      IF c - 1 = dot_position THEN "dot"
                      ELSE IF blocks_in_this_char(c - 1) > 0 THEN "played"
                      ELSE "unplayed"]]

create_progress_bar(progress, width) ==
    LET total_sub_blocks == width * 100
        filled_sub_blocks == Floor(<<total_sub_blocks * progress[1], progress[2]>>)
        dot_position == Min(Floor(<<width * progress[1], progress[2]>>),
                            Max(width - 1, 0))
        blocks_in_this_char(i) == Min(Max(filled_sub_blocks - i * 100, 0), 100)
    IN  [filled_sub_blocks |-> filled_sub_blocks,
         dot_position |-> dot_position,
         spans |-> [c \in 1..width |->
                      IF c - 1 = dot_position THEN "dot"
                      ELSE IF blocks_in_this_char(c - 1) > 0 THEN "played"
                      ELSE "unplayed"]]

progress_bar_width == 30

\* the frame ui draws when get_current_time() returns t
DrawFrame(t) ==
    /\ frame_time' = t
    /\ current_idx' = get_current_line_index(lyrics, line_delay, t)
    /\ lines' = window(lyrics, line_delay, t, current_idx')
    /\ progress_ratio' = RatMin(<<t, song_duration>>, One)
    /\ progress_bar' = create_progress_bar(progress_ratio', progress_bar_width)

\* no frame drawn yet
NoBar == [filled_sub_blocks |-> 0, dot_position |-> 0, spans |-> <<>>]

NoFrame ==
    /\ frame_time = 0
    /\ current_idx = None
    /\ lines = [r \in 1..VISIBLE_LINES |-> BlankRow]
    /\ progress_ratio = Zero
    /\ progress_bar = NoBar

(***************************************************************************)
(* main: the render / poll loop.  A run starts where the loop is entered:  *)
(* raw mode and the alternate screen are on, the app is constructed.       *)
(***************************************************************************)
NoKey == [app |-> [paused |-> FALSE, current_position |-> 0, start_time |-> 0,
                   line_delay |-> 0],
          now |-> 0]

SetApp(app) ==
    /\ paused' = app.paused
    /\ current_position' = app.current_position
    /\ start_time' = app.start_time
    /\ line_delay' = app.line_delay

\* KaraokeApp::new at wall-clock instant t, SongConfig::load having returned cfg
new(cfg, t) ==
    [lyrics |-> cfg.lyrics, start_time |-> t, paused |-> FALSE,
     current_position |-> cfg.start_position, song_duration |-> cfg.duration,
     line_delay |-> 0]

\* the app's fields are those of the value a
Constructed(a) ==
    /\ lyrics = a.lyrics
    /\ start_time = a.start_time
    /\ paused = a.paused
    /\ current_position = a.current_position
    /\ song_duration = a.song_duration
    /\ line_delay = a.line_delay

Init ==
    /\ config = load
    /\ now = 0
    /\ Constructed(new(config, now))
    /\ pc = "draw"
    /\ raw_mode = TRUE
    /\ alternate_screen = TRUE
    /\ key = "none"
    /\ before = NoKey
    /\ NoFrame

\* main is still in its loop
Running == pc \in {"draw", "clamp", "poll"}

\* wall-clock time passes, at any point of the loop
Advance ==
    /\ Running
    /\ \E w \in 1..MaxWait :
        /\ now + w * WaitUnit <= MaxNow
        /\ now' = now + w * WaitUnit
    /\ key' = "none"
    /\ before' = NoKey
    /\ UNCHANGED <<song, clock, pc, term, frame>>

\* terminal.draw(|f| ui(f, &app))
Draw ==
    /\ pc = "draw"
    /\ pc' = "clamp"
    /\ DrawFrame(get_current_time(App, now))
    /\ key' = "none"
    /\ before' = NoKey
    /\ UNCHANGED <<song, clock, now, term>>

\* terminal.draw(..)? returns the io::Error: main returns it at once
DrawError ==
    /\ pc = "draw"
    /\ pc' = "failed"
    /\ key' = "none"
    /\ before' = NoKey
    /\ UNCHANGED <<song, clock, now, term, frame>>

\* if app.is_song_ended() && !app.paused { ... }
Clamp ==
    /\ pc = "clamp"
    /\ pc' = "poll"
    /\ SetApp(end_of_song_clamp(App, now))
    /\ key' = "none"
    /\ before' = NoKey
    /\ UNCHANGED <<song, now, term, frame>>

\* event::poll(timeout) returns false, or the event read is no key event
PollTimeout ==
    /\ pc = "poll"
    /\ pc' = "draw"
    /\ key' = "none"
    /\ before' = NoKey
    /\ UNCHANGED <<song, clock, now, term, frame>>

\* event::poll(timeout)? or event::read()? returns the io::Error
PollError ==
    /\ pc = "poll"
    /\ pc' = "failed"
    /\ key' = "none"
    /\ before' = NoKey
    /\ UNCHANGED <<song, clock, now, term, frame>>

\* a key event k whose arm leaves the app as newapp
Handle(k, newapp) ==
    /\ pc = "poll"
    /\ pc' = "draw"
    /\ key' = k
    /\ before' = [app |-> App, now |-> now]
    /\ SetApp(newapp)
    /\ UNCHANGED <<song, now, term, frame>>

KeySpace == Handle("space", toggle_pause(App, now))

KeyRestart == Handle("r", restart(App, now))

KeyUp == line_delay < MaxDelay /\ Handle("up", offset_up(App))

KeyDown == Handle("down", offset_down(App))

KeyOther == Handle("other", App)

\* break, then disable_raw_mode, LeaveAlternateScreen, show_cursor, Ok(())
KeyQuit ==
    /\ pc = "poll"
    /\ pc' = "done"
    /\ key' = "q"
    /\ before' = [app |-> App, now |-> now]
    /\ raw_mode' = FALSE
    /\ alternate_screen' = FALSE
    /\ UNCHANGED <<song, clock, now, frame>>

\* one step of the loop body
Loop ==
    \/ Draw
    \/ DrawError
    \/ Clamp
    \/ PollTimeout
    \/ PollError
    \/ KeySpace
    \/ KeyRestart
    \/ KeyUp
    \/ KeyDown
    \/ KeyOther
    \/ KeyQuit

Next == Advance \/ Loop

Spec == Init /\ [][Next]_vars

FairSpec == Spec /\ WF_vars(Loop)

(***************************************************************************)
(* The lyric index on its own: the app holds any well-formed lyric         *)
(* sequence within the bounds and any sync offset, and ui resolves the     *)
(* active line of one frame after another, at any playback time not       *)
(* before the previous frame's.                                            *)
(***************************************************************************)
MaxFrameTime == MaxTime + MaxLyricDelay + 1

LineSet ==
    {l \in {LyricLine("A", s, e) : s \in 0..(MaxTime - 1), e \in 1..MaxTime} :
        l.end_time > l.start_time}

\* non-empty, ordered by start_time ascending, each end_time > start_time
WellFormed(ls) ==
    /\ Len(ls) >= 1
    /\ \A i \in 1..Len(ls) : ls[i].end_time > ls[i].start_time
    /\ \A i \in 1..(Len(ls) - 1) : ls[i].start_time <= ls[i + 1].start_time

WellFormedLyrics ==
    UNION {{ls \in [1..n -> LineSet] : WellFormed(ls)} : n \in 1..MaxLines}

LyricInit ==
    /\ \E ls \in WellFormedLyrics :
        config = [title |-> "A", duration |-> MaxFrameTime, start_position |-> 0,
                  lyrics |-> ls]
    /\ now = 0
    /\ \E d \in 0..MaxLyricDelay :
        Constructed([new(config, now) EXCEPT !.line_delay = d])
    /\ pc = "draw"
    /\ raw_mode = TRUE
    /\ alternate_screen = TRUE
    /\ key = "none"
    /\ before = NoKey
    /\ frame_time = 0
    /\ current_idx = get_current_line_index(lyrics, line_delay, 0)
    /\ lines = window(lyrics, line_delay, 0, current_idx)
    /\ progress_ratio = Zero
    /\ progress_bar = create_progress_bar(Zero, progress_bar_width)

\* ui, with current_time = t
DrawAt(t) ==
    /\ DrawFrame(t)
    /\ UNCHANGED <<song, clock, now, pc, term, key, before>>

LyricNext == \E t \in frame_time..MaxFrameTime : DrawAt(t)

LyricSpec == LyricInit /\ [][LyricNext]_vars

(***************************************************************************)
(* Properties of the clock.  `key` names the key event the latest step     *)
(* handled and `before` the state its handler found, so a state with       *)
(* key = k is the state right after the arm of k ran, with no wall-clock   *)
(* time elapsed since (before.now = now).                                  *)
(***************************************************************************)
TimeBefore == get_current_time(before.app, before.now)

TimeNow == get_current_time(App, now)

EndedBefore == is_song_ended(before.app, before.now)

\* C1: a toggle_pause that pauses (clock unpaused, song not ended) snapshots
\* the playback position: the new current_position is the current time as it
\* was just before the call, so the current time read right after pausing
\* equals the one read right before.
C1_PauseSnapshotsPosition ==
    (key = "space" /\ ~before.app.paused /\ ~EndedBefore) =>
        /\ paused
        /\ current_position = TimeBefore
        /\ TimeNow = TimeBefore

\* C2: from any reachable state whose song has not ended, paused or not,
\* two toggle_pause calls back to back at the same wall-clock instant leave
\* the current time and paused as they were.  (Between two Space presses the
\* loop only draws and runs the clamp, which changes nothing unless the song
\* has ended.)
C2_ToggleTwiceRoundTrip ==
    ~is_song_ended(App, now) =>
        LET once == toggle_pause(App, now)
            twice == toggle_pause(once, now)
        IN  /\ get_current_time(twice, now) = TimeNow
            /\ twice.paused = paused

\* C3: in every reachable state the current time lies in [0, duration]; it
\* is current_position when paused and
\* min(current_position + (now - start_time), duration) when not.
C3_CurrentTimeInRange ==
    /\ TimeNow \in 0..song_duration
    /\ paused => TimeNow = current_position
    /\ ~paused => TimeNow = Min(current_position + (now - start_time), song_duration)

\* the clock is running and the wall clock has run past the end of the song
C3_Witness ==
    /\ ~paused
    /\ current_position + (now - start_time) > song_duration
    /\ TimeNow = song_duration

\* C4: toggle_pause on an ended song (current time >= duration, whether or
\* not the auto-pause has been applied) changes none of paused,
\* current_position, start_time and line_delay.
C4_ToggleNoOpWhenEnded ==
    (key = "space" /\ EndedBefore) => App = before.app

\* Space was pressed on a song that had ended but was not yet auto-paused
C4_Witness ==
    /\ key = "space"
    /\ EndedBefore
    /\ ~before.app.paused
    /\ before.app.current_position < song_duration

\* C5: restart, in whatever state it is applied, leaves the current time at
\* 0, paused false and the song not ended, and does not change line_delay.
C5_RestartResets ==
    key = "r" =>
        /\ TimeNow = 0
        /\ ~paused
        /\ ~is_song_ended(App, now)
        /\ line_delay = before.app.line_delay

\* restart was pressed on an ended, auto-paused song with a non-zero offset
C5_Witness ==
    /\ key = "r"
    /\ before.app.paused
    /\ before.app.current_position = song_duration
    /\ before.app.line_delay > 0
    /\ before.now > before.app.start_time

\* C7: line_delay is never negative, and Down pressed at offset 0 leaves it
\* at 0.
C7_OffsetNeverNegative ==
    /\ line_delay >= 0
    /\ (key = "down" /\ before.app.line_delay = 0) => line_delay = 0

\* Down was pressed at offset 0
C7_Witness ==
    /\ key = "down"
    /\ before.app.line_delay = 0
    /\ line_delay = 0

\* C8: Up and Down leave current_position, start_time and paused unchanged,
\* so the current time and is_song_ended are the same before and after.
C8_OffsetKeepsClock ==
    key \in {"up", "down"} =>
        /\ current_position = before.app.current_position
        /\ start_time = before.app.start_time
        /\ paused = before.app.paused
        /\ TimeNow = TimeBefore
        /\ is_song_ended(App, now) = EndedBefore

\* Up raised the offset while the clock was running in mid-song
C8_Witness ==
    /\ key = "up"
    /\ line_delay = before.app.line_delay + 1
    /\ ~paused
    /\ TimeNow > 0
    /\ TimeNow < song_duration

(***************************************************************************)
(* The end-of-song auto-pause.                                             *)
(***************************************************************************)
Ended == is_song_ended(App, now)

AutoPaused == paused /\ current_position = song_duration

\* C6: when the song has ended with the clock unpaused, the clamp of the
\* next loop iteration sets paused and sets current_position to the duration
\* exactly; from then on every step that is not a restart (a loop iteration,
\* Space, Up, Down) leaves both so; only restart leaves the ended state; and
\* under a loop that keeps iterating, an ended unpaused song does get
\* auto-paused unless restart comes first or main is left.
C6_AutoPause ==
    /\ [][(pc = "clamp" /\ pc' = "poll" /\ Ended /\ ~paused) => AutoPaused']_vars
    /\ [][(AutoPaused /\ key' # "r") => AutoPaused']_vars
    /\ [][(Ended /\ ~Ended') => key' = "r"]_vars
    /\ (Ended /\ ~paused /\ Running) ~> (AutoPaused \/ key = "r" \/ ~Running)

\* Space, then Down, were pressed on a song the clamp had auto-paused
C6_Witness ==
    /\ AutoPaused
    /\ key = "down"
    /\ before.app.paused
    /\ before.app.current_position = song_duration
    /\ before.app.line_delay > 0
    /\ now - start_time > song_duration

(***************************************************************************)
(* Properties of the lyric index, over the frames ui resolves.             *)
(***************************************************************************)
LastIndex == Len(lyrics) - 1

\* the frame's time lies in no line's adjusted interval
InNoLine == \A i \in 0..LastIndex : ~InLine(lyrics, line_delay, frame_time, i)

\* two lines of the sequence overlap
HasOverlap ==
    \E i \in 1..(Len(lyrics) - 1) : lyrics[i].end_time > lyrics[i + 1].start_time

\* two adjacent lines of the sequence leave a gap
HasGap ==
    \E i \in 1..(Len(lyrics) - 1) : lyrics[i].end_time < lyrics[i + 1].start_time

\* C9: for a fixed sync offset and every well-formed lyric sequence (gaps
\* and overlaps allowed), the active index is non-decreasing in the playback
\* time, None below every index: a frame at a later or equal time never
\* resolves to a lower index.
C9_ActiveIndexMonotone ==
    [][(frame_time <= frame_time' /\ line_delay' = line_delay /\ lyrics' = lyrics)
           => current_idx <= current_idx']_vars

\* a frame inside a gap of a sequence that also overlaps, resolved to the
\* most recent completed line, which is neither the first nor the last
C9_Witness ==
    /\ HasOverlap
    /\ HasGap
    /\ line_delay > 0
    /\ InNoLine
    /\ current_idx > 0
    /\ current_idx < LastIndex

\* C10, as claimed: for every well-formed lyric sequence and every time at
\* or past the last line's adjusted end, the active index is the last index.
C10_TailReturnsLast ==
    frame_time >= lyrics[Len(lyrics)].end_time + line_delay
        => current_idx = LastIndex

\* C10, amended: for every well-formed lyric sequence and every time at or
\* past the last line's adjusted end that lies in no line's adjusted
\* interval, the active index is the last index.
C10_TailReturnsLastOutsideLines ==
    (frame_time >= lyrics[Len(lyrics)].end_time + line_delay /\ InNoLine)
        => current_idx = LastIndex

\* a frame past the last line's adjusted end and past an earlier line that
\* ends after the last one does
C10_Witness ==
    /\ Len(lyrics) >= 2
    /\ HasOverlap
    /\ \E i \in 1..(Len(lyrics) - 1) :
           /\ lyrics[i].end_time > lyrics[Len(lyrics)].end_time
           /\ frame_time >= lyrics[i].end_time + line_delay
    /\ InNoLine
    /\ current_idx = LastIndex

\* the line with index i has ended at the frame's time
EndedAtFrame(i) == frame_time >= LineAt(lyrics, i).end_time + line_delay

\* C11: for every well-formed lyric sequence, when the frame's time lies in
\* no line's adjusted interval and before the last line's adjusted end, and
\* some line has ended, the active index is the highest index whose adjusted
\* end is at or before that time; with the lines (A, 0.0, 2.0), (B, 5.0, 7.0),
\* offset 0 and t = 3.5 it is 0.
C11_GapKeepsLastCompleted ==
    /\ (/\ InNoLine
        /\ frame_time < LineAt(lyrics, LastIndex).end_time + line_delay
        /\ \E i \in 0..LastIndex : EndedAtFrame(i))
           => /\ current_idx # None
              /\ EndedAtFrame(current_idx)
              /\ \A j \in 0..LastIndex : EndedAtFrame(j) => j <= current_idx
    /\ get_current_line_index(<<LyricLine("A", 0, 20), LyricLine("B", 50, 70)>>, 0, 35) = 0

\* a frame in the gap before the last of three lines, two lines having
\* ended, resolved to the second
C11_Witness ==
    /\ Len(lyrics) = 3
    /\ ~HasOverlap
    /\ InNoLine
    /\ frame_time < LineAt(lyrics, LastIndex).start_time + line_delay
    /\ EndedAtFrame(0)
    /\ EndedAtFrame(1)
    /\ current_idx = 1

\* the first line's adjusted start
FirstStart == LineAt(lyrics, 0).start_time + line_delay

\* C12: for every well-formed lyric sequence, the active index is None
\* exactly when the frame's time is before the first line's adjusted start;
\* with a single line, every time at or after its adjusted start resolves
\* to index 0.
C12_NoneOnlyBeforeFirstLine ==
    /\ current_idx = None <=> frame_time < FirstStart
    /\ (Len(lyrics) = 1 /\ frame_time >= FirstStart) => current_idx = 0

\* a frame past the end of the only line, which starts after time 0 and is
\* shifted by a sync offset
C12_Witness ==
    /\ Len(lyrics) = 1
    /\ LineAt(lyrics, 0).start_time > 0
    /\ line_delay > 0
    /\ frame_time >= LineAt(lyrics, 0).end_time + line_delay
    /\ current_idx = 0

\* the progress of the line with index i at playback time t
ProgressAt(i, t) == get_line_progress(lyrics, line_delay, t, i)

\* C13: for every line with end > start and every playback time t, the
\* line's progress is 0 before its adjusted start, 1 at or after its adjusted
\* end and (t - adjusted_start) / (end - start) in between, as an exact
\* fraction; it lies in [0, 1], no later time gives a smaller progress, and
\* the active row of the frame shows the progress of the active line.
C13_LineProgress ==
    /\ \A i \in 0..LastIndex :
           LET line == LineAt(lyrics, i)
               p == ProgressAt(i, frame_time)
           IN  /\ frame_time < line.start_time + line_delay => RatEq(p, Zero)
               /\ frame_time >= line.end_time + line_delay => RatEq(p, One)
               /\ (/\ frame_time >= line.start_time + line_delay
                   /\ frame_time < line.end_time + line_delay)
                      => p[1] * (line.end_time - line.start_time)
                             = (frame_time - (line.start_time + line_delay)) * p[2]
               /\ p[2] > 0
               /\ RatLe(Zero, p)
               /\ RatLe(p, One)
               /\ \A t \in frame_time..MaxFrameTime : RatLe(p, ProgressAt(i, t))
    /\ current_idx # None
           => lines[CENTER_LINE + 1].progress = ProgressAt(current_idx, frame_time)

\* a frame half way through a line of a sequence shifted by a sync offset
C13_Witness ==
    /\ line_delay > 0
    /\ current_idx # None
    /\ frame_time > LineAt(lyrics, current_idx).start_time + line_delay
    /\ frame_time < LineAt(lyrics, current_idx).end_time + line_delay
    /\ RatEq(lines[CENTER_LINE + 1].progress, <<1, 2>>)

(***************************************************************************)
(* The loop run on a two-line song: lines (A, 0.0, 3.0), (B, 3.0, 6.0),   *)
(* duration 6.0, the wall clock read at the instants of ScenarioTimes.     *)
(***************************************************************************)

Scenario ==
    [title |-> "Scenario", duration |-> 60, start_position |-> 0,
     lyrics |-> <<LyricLine("A", 0, 30), LyricLine("B", 30, 60)>>]

ScenarioTimes == {0, 15, 30, 45, 60, 75}

ScenarioInit ==
    /\ config = Scenario
    /\ now = 0
    /\ Constructed(new(config, now))
    /\ pc = "draw"
    /\ raw_mode = TRUE
    /\ alternate_screen = TRUE
    /\ key = "none"
    /\ before = NoKey
    /\ NoFrame

\* wall-clock time passes to a later instant of the scenario
ScenarioAdvance ==
    /\ Running
    /\ \E t \in ScenarioTimes :
        /\ t > now
        /\ now' = t
    /\ key' = "none"
    /\ before' = NoKey
    /\ UNCHANGED <<song, clock, pc, term, frame>>

ScenarioNext == ScenarioAdvance \/ Loop

ScenarioSpec == ScenarioInit /\ [][ScenarioNext]_vars

\* terminal.draw has returned and the clamp has not run yet: the frame on
\* screen was computed from the app as it is
FrameDrawn == pc = "clamp"

\* the progress the frame shows for its active line
ActiveProgress == lines[CENTER_LINE + 1].progress

\* C14: with the lines (A, 0.0, 3.0), (B, 3.0, 6.0), duration 6.0 and offset
\* 0, a frame drawn at playback time 0.0 shows index 0 with progress 0, at
\* 1.5 index 0 with progress 0.5, at 3.0 index 1 with progress 0, and at 6.0
\* the song has ended and the frame shows index 1 with progress 1.
C14_TwoLineScenario ==
    (FrameDrawn /\ line_delay = 0)
        => /\ frame_time = 0
                  => current_idx = 0 /\ RatEq(ActiveProgress, Zero)
           /\ frame_time = 15
                  => current_idx = 0 /\ RatEq(ActiveProgress, <<1, 2>>)
           /\ frame_time = 30
                  => current_idx = 1 /\ RatEq(ActiveProgress, Zero)
           /\ frame_time = 60
                  => Ended /\ current_idx = 1 /\ RatEq(ActiveProgress, One)

\* the frame drawn at the end of the song, reached by uninterrupted play
C14_Witness ==
    /\ FrameDrawn
    /\ line_delay = 0
    /\ start_time = 0
    /\ now = 60
    /\ frame_time = 60
    /\ Ended
    /\ current_idx = 1
    /\ RatEq(ActiveProgress, One)

(***************************************************************************)
(* Start-up on any configuration: SongConfig::load returning a value of    *)
(* any shape (the literal edited by hand), then KaraokeApp::new and the    *)
(* first draw of the loop.                                                 *)
(***************************************************************************)

MaxConfigTime == 2
MaxConfigLines == 2

\* lines of any shape: end before, at or after start
AnyLine ==
    {LyricLine("x", s, e) : s \in 0..MaxConfigTime, e \in 0..MaxConfigTime}

\* sequences of any shape: empty, unordered, inverted lines
AnyLyrics == UNION {[1..n -> AnyLine] : n \in 0..MaxConfigLines}

\* configurations of any shape: duration negative, zero or positive
AnyConfig ==
    {[title |-> "x", duration |-> dur, start_position |-> 0, lyrics |-> ls] :
        dur \in (0 - 1)..MaxConfigTime, ls \in AnyLyrics}

\* what the configuration is documented to satisfy
WellFormedConfig(cfg) ==
    /\ cfg.duration > 0
    /\ WellFormed(cfg.lyrics)

\* main after Terminal::new, entering KaraokeApp::new: config is the value
\* its SongConfig::load returns
ConfigInit ==
    /\ config \in AnyConfig
    /\ now = 0
    /\ lyrics = <<>>
    /\ song_duration = 0
    /\ start_time = 0
    /\ paused = FALSE
    /\ current_position = 0
    /\ line_delay = 0
    /\ pc = "new"
    /\ raw_mode = TRUE
    /\ alternate_screen = TRUE
    /\ key = "none"
    /\ before = NoKey
    /\ NoFrame

\* let mut app = KaraokeApp::new(): the fields are copied, nothing is
\* validated, and main enters the loop
New ==
    /\ pc = "new"
    /\ pc' = "draw"
    /\ LET a == new(config, now)
       IN  /\ lyrics' = a.lyrics
           /\ song_duration' = a.song_duration
           /\ SetApp(a)
    /\ UNCHANGED <<config, now, term, key, before, frame>>

\* the first terminal.draw on empty lyrics: ui calls get_current_line_index,
\* whose self.lyrics.last().unwrap() panics; the terminal is left as it is
DrawPanic ==
    /\ pc = "draw"
    /\ lyrics = <<>>
    /\ pc' = "panicked"
    /\ UNCHANGED <<song, clock, now, term, key, before, frame>>

ConfigNext == New \/ DrawPanic

ConfigSpec == ConfigInit /\ [][ConfigNext]_vars

Exited == pc \in {"done", "failed"}

\* C16: on every exit path of main, the quit key as well as an I/O error
\* from draw, poll or read, raw mode is off and the alternate screen has
\* been left when main returns.
C16_TerminalRestoredOnExit == Exited => (~raw_mode /\ ~alternate_screen)

\* the frame's row with index r, 0..4
Row(r) == lines[r + 1]

\* C17: when the active index is a, row 2 of the five-row window shows line
\* a as the active line, and every other row r of 0..4 shows line
\* a + (r - 2) if that index is within 0..len-1, wholly styled completed or
\* upcoming by whether the line has ended at the frame's time, and is blank
\* otherwise; when there is no active line all five rows are blank.
C17_WindowProjection ==
    /\ Len(lines) = VISIBLE_LINES
    /\ current_idx = None
           => \A r \in 0..(VISIBLE_LINES - 1) : Row(r) = BlankRow
    /\ current_idx # None
           => /\ Row(2).idx = current_idx
              /\ Row(2).style = "active"
              /\ \A r \in (0..(VISIBLE_LINES - 1)) \ {2} :
                     LET j == current_idx + (r - 2)
                     IN  IF j >= 0 /\ j <= LastIndex
                         THEN /\ Row(r).idx = j
                              /\ Row(r).style =
                                     IF EndedAtFrame(j) THEN "completed" ELSE "upcoming"
                              /\ Row(r).progress = Zero
                         ELSE Row(r) = BlankRow

\* the first of three lines is active while the second, which it overlaps,
\* has ended and the third has not begun: rows 0 and 1 are blank, rows 3 and
\* 4 show lines 1 and 2, completed and upcoming
C17_Witness ==
    /\ Len(lyrics) = 3
    /\ current_idx = 0
    /\ Row(0) = BlankRow
    /\ Row(1) = BlankRow
    /\ Row(2).style = "active"
    /\ Row(3).idx = 1
    /\ Row(3).style = "completed"
    /\ Row(4).idx = 2
    /\ Row(4).style = "upcoming"

(***************************************************************************)
(* create_progress_bar on its own: a ratio in [0, 1] and a width are       *)
(* chosen, then the bar is built.                                          *)
(***************************************************************************)

MaxDen == 20
MaxWidth == 10

\* the ratios n / d of [0, 1] with a denominator up to MaxDen
Ratios == {r \in (0..MaxDen) \X (1..MaxDen) : r[1] <= r[2]}

\* the widths up to MaxWidth, and the width ui passes
Widths == (1..MaxWidth) \cup {progress_bar_width}

BarInit ==
    /\ config = load
    /\ now = 0
    /\ Constructed(new(config, now))
    /\ pc = "draw"
    /\ raw_mode = TRUE
    /\ alternate_screen = TRUE
    /\ key = "none"
    /\ before = NoKey
    /\ frame_time = 0
    /\ current_idx = None
    /\ lines = [r \in 1..VISIBLE_LINES |-> BlankRow]
    /\ progress_ratio \in Ratios
    /\ progress_bar = NoBar

\* create_progress_bar(progress_ratio, width)
DrawBar ==
    /\ progress_bar = NoBar
    /\ \E width \in Widths :
           progress_bar' = create_progress_bar(progress_ratio, width)
    /\ UNCHANGED <<song, clock, now, pc, term, key, before,
                   frame_time, current_idx, lines, progress_ratio>>

BarSpec == BarInit /\ [][DrawBar]_vars

\* the width of the bar built: one span per cell
BarWidth == Len(progress_bar.spans)

\* the cell with index i, 0..W-1
Cell(i) == progress_bar.spans[i + 1]

\* C18: for a bar of width W and a ratio n / d in [0, 1], the fill count is
\* floor(W * 100 * ratio); the marker cell is min(floor(W * ratio), W - 1),
\* lies in 0..W-1 and is the only marker; every other cell i is played
\* exactly when the fill count exceeds 100 * i, so that the cells left of
\* the marker are played and those right of it unplayed; for W = 10 and
\* ratio 0.35 the fill count is 350, cells 0, 1, 2 are played and the
\* marker is cell 3.
C18_ProgressBar ==
    progress_bar # NoBar =>
        LET W == BarWidth
            n == progress_ratio[1]
            d == progress_ratio[2]
            fill == progress_bar.filled_sub_blocks
            marker == progress_bar.dot_position
        IN  /\ fill * d <= W * 100 * n
            /\ W * 100 * n < (fill + 1) * d
            /\ IF n >= d
               THEN marker = W - 1
               ELSE marker * d <= W * n /\ W * n < (marker + 1) * d
            /\ marker \in 0..(W - 1)
            /\ {i \in 0..(W - 1) : Cell(i) = "dot"} = {marker}
            /\ \A i \in (0..(W - 1)) \ {marker} :
                   /\ Cell(i) \in {"played", "unplayed"}
                   /\ Cell(i) = "played" <=> fill > 100 * i
            /\ \A i \in 0..(marker - 1) : Cell(i) = "played"
            /\ \A i \in (marker + 1)..(W - 1) : Cell(i) = "unplayed"
            /\ (W = 10 /\ RatEq(progress_ratio, <<35, 100>>))
                   => /\ fill = 350
                      /\ marker = 3
                      /\ \A i \in 0..2 : Cell(i) = "played"

\* the bar of width 10 built for the ratio 0.35, given as 7 / 20
C18_Witness ==
    /\ BarWidth = 10
    /\ progress_ratio = <<7, 20>>
    /\ progress_bar.filled_sub_blocks = 350
    /\ progress_bar.dot_position = 3
    /\ Cell(3) = "dot"
    /\ Cell(2) = "played"
    /\ Cell(4) = "unplayed"

\* C19: along every run, no step other than a restart moves the playback
\* time backward, whatever the interleaving of wall-clock advance, pause,
\* resume, offset changes and the auto-pause; while the app stays paused the
\* playback time stays the same as the wall clock advances.
C19_TimeNeverMovesBackward ==
    [][/\ key' # "r" => TimeNow' >= TimeNow
       /\ (paused /\ paused') => TimeNow' = TimeNow]_vars

\* the line with index i is completed at the frame's time
CompletedAtFrame(i) == is_line_completed(lyrics, line_delay, frame_time, i)

\* C20: for a lyric sequence whose lines are ordered and do not overlap
\* (end_i <= start_{i+1}) and any offset, when the active index is a, every
\* line before a is completed and every line after a is not, so the rows
\* above the centre show completed lines and the rows below upcoming ones,
\* and line a is completed exactly when its progress is 1.
C20_CompletedAroundActive ==
    (~HasOverlap /\ current_idx # None)
        => /\ \A i \in 0..(current_idx - 1) : CompletedAtFrame(i)
           /\ \A i \in (current_idx + 1)..LastIndex : ~CompletedAtFrame(i)
           /\ \A r \in 0..(CENTER_LINE - 1) :
                  Row(r).style \in {"completed", "blank"}
           /\ \A r \in (CENTER_LINE + 1)..(VISIBLE_LINES - 1) :
                  Row(r).style \in {"upcoming", "blank"}
           /\ CompletedAtFrame(current_idx)
                  <=> RatEq(ProgressAt(current_idx, frame_time), One)

\* the middle of three non-overlapping lines is being sung under a sync
\* offset: the row above shows a completed line, the row below an upcoming
\* one, and the active line is neither completed nor at progress 1
C20_Witness ==
    /\ ~HasOverlap
    /\ line_delay > 0
    /\ Len(lyrics) = 3
    /\ current_idx = 1
    /\ Row(1).style = "completed"
    /\ Row(3).style = "upcoming"
    /\ ~CompletedAtFrame(1)
    /\ ~RatEq(ProgressAt(1, frame_time), One)
    /\ ~RatEq(ProgressAt(1, frame_time), Zero)

====
